---- MODULE Spec2Model ----
(***************************************************************************)
(* A model of the task-agent core: the WorkflowEngine step machine         *)
(* (electron/agent/WorkflowEngine.ts), the LLMService.chat it calls        *)
(* (electron/agent/LLMService.ts) and the AgentFileSystem it persists      *)
(* tasks.json with (electron/agent/FileSystem.ts).                         *)
(*                                                                         *)
(* JavaScript runs one continuation at a time: an action of this model is  *)
(* the code that runs between two suspension points (a network request, a  *)
(* timer, a file operation) of one processMessage invocation.              *)
(***************************************************************************)
EXTENDS Integers, Sequences, FiniteSets, TLC

\* ------------------------------------------------------------------ bounds
\* processMessage invocations in one behaviour (they may overlap)
MaxInv == 3
\* main-task children of the largest generated project
MaxTasks == 2
\* items of the largest sub-task array a model reply holds
MaxSub == 2
\* children of one node in the trees findTasksToDecompose is called on
MaxWidth == 2
\* messages in the lists preprocessForGoogle is called on
MaxMsgs == 3

\* --------------------------------------------------------- WorkflowStep
INITIATION == 1
TASK_GENERATION == 2
DECOMPOSITION == 3
ANALYSIS == 4
COORDINATION == 5
PLANNING == 6
EXECUTION == 7
COMPLETED == 8

\* ------------------------------------------------- JSON values (JS values)
\* A value that JSON.parse can return, or a missing property (undefined).
Undef == [k |-> "undefined"]
JNull == [k |-> "null"]
JTrue == [k |-> "bool", b |-> TRUE]
JNum(n) == [k |-> "num", n |-> n]
JStr(len) == [k |-> "str", len |-> len]
JArr(items) == [k |-> "arr", items |-> items]

\* interface TaskNode; children and decomposed are optional (Undef if absent)
TaskNode(id, title, type, children, decomposed) ==
    [k |-> "obj", id |-> id, title |-> title, type |-> type,
     status |-> "pending", children |-> children, decomposed |-> decomposed]

\* JavaScript truthiness (the ! and || of the conditions)
Truthy(v) ==
    CASE v.k \in {"undefined", "null"} -> FALSE
      [] v.k = "bool" -> v.b
      [] v.k = "num" -> v.n # 0
      [] v.k = "str" -> v.len > 0
      [] OTHER -> TRUE

\* v.children: undefined on anything but an object that has the property
ChildrenOf(v) == IF v.k = "obj" THEN v.children ELSE Undef

\* v.length: the element count of an array, the length of a string,
\* undefined on numbers, booleans and plain objects (-1 stands for undefined)
LengthOf(v) ==
    CASE v.k = "arr" -> Len(v.items)
      [] v.k = "str" -> v.len
      [] OTHER -> -1

\* reading a property of null or undefined raises a TypeError
PropThrows(v) == v.k \in {"null", "undefined"}

\* JSON text: an object is the list of its members in insertion order, a
\* member whose value is undefined being left out; an array is the list of
\* its items; anything else is a literal.
Quoted(s) == [k |-> "string", s |-> s]
Member(name, text) == [name |-> name, text |-> text]

\* a serialisation that writes the four required members and the children
RECURSIVE SerializeWithoutFlag(_)
SerializeWithoutFlag(v) ==
    CASE v.k = "obj" ->
            [k |-> "object",
             members |-> <<Member("id", Quoted(v.id)), Member("title", Quoted(v.title)),
                           Member("type", Quoted(v.type)), Member("status", Quoted(v.status))>>
                         \o (IF v.children = Undef THEN <<>>
                             ELSE <<Member("children", SerializeWithoutFlag(v.children))>>)]
      [] v.k = "arr" ->
            [k |-> "array", items |-> [j \in DOMAIN v.items |-> SerializeWithoutFlag(v.items[j])]]
      [] OTHER -> [k |-> "literal", v |-> v]

\* JSON.stringify
RECURSIVE Serialize(_)
Serialize(v) ==
    CASE v.k = "obj" ->
            [k |-> "object",
             members |-> <<Member("id", Quoted(v.id)), Member("title", Quoted(v.title)),
                           Member("type", Quoted(v.type)), Member("status", Quoted(v.status))>>
                         \o (IF v.children = Undef THEN <<>>
                             ELSE <<Member("children", Serialize(v.children))>>)
                         \o (IF v.decomposed = Undef THEN <<>>
                             ELSE <<Member("decomposed", Serialize(v.decomposed))>>)]
      [] v.k = "arr" ->
            [k |-> "array", items |-> [j \in DOMAIN v.items |-> Serialize(v.items[j])]]
      [] OTHER -> [k |-> "literal", v |-> v]

\* the element of a one-element set
The(S) == CHOOSE y \in S : TRUE

\* JSON.parse of a well-formed text: a member that is absent reads as undefined
\* (each member's text is looked up once, then parsed)
RECURSIVE Deserialize(_)
Deserialize(text) ==
    CASE text.k = "object" ->
            LET Has(n) == \E j \in DOMAIN text.members : text.members[j].name = n
                Get(n) == text.members[CHOOSE j \in DOMAIN text.members :
                                           text.members[j].name = n].text
                Opt(n) == IF Has(n) THEN The({Deserialize(t) : t \in {Get(n)}}) ELSE Undef
            IN  [k |-> "obj", id |-> Get("id").s, title |-> Get("title").s,
                 type |-> Get("type").s, status |-> Get("status").s,
                 children |-> Opt("children"), decomposed |-> Opt("decomposed")]
      [] text.k = "array" -> JArr([j \in DOMAIN text.items |-> Deserialize(text.items[j])])
      [] OTHER -> text.v

\* ------------------------------------------------------------ user texts
\* A text is a sequence of words as typed.  String.toLowerCase
Lower(w) ==
    CASE w = "YES" -> "yes"
      [] w = "Looks" -> "looks"
      [] w = "Skipping" -> "skipping"
      [] OTHER -> w

ToLowerCase(text) == [j \in DOMAIN text |-> Lower(text[j])]

\* the keywords that occur inside a longer word ("skipping" holds "skip")
SubstringOf(w) ==
    CASE w = "skipping" -> {"skip"}
      [] w = "yesterday" -> {"yes"}
      [] OTHER -> {}

\* String.includes, for a keyword of one or more words
Includes(text, kw) ==
    IF Len(kw) = 1
    THEN \E j \in DOMAIN text : text[j] = kw[1] \/ kw[1] \in SubstringOf(text[j])
    ELSE \E o \in 0..(Len(text) - Len(kw)) :
             \A j \in DOMAIN kw : text[o + j] = kw[j]

\* the texts a user sends in this model
UserTexts == { <<"Looks", "good">>, <<"YES", "skip">>, <<"Skipping">> }

\* handleInitiationStep: the confirmation condition
ConfirmKeywords == { <<"yes">>, <<"proceed">>, <<"looks", "good">> }
IsConfirmation(lastUserMsg) == \E kw \in ConfirmKeywords : Includes(lastUserMsg, kw)

\* handleDecompositionStep: the two keyword conditions
TriggerKeywords == { <<"decompose">>, <<"yes">>, <<"proceed">>, <<"break">> }
IsTrigger(lastUserMsg) == \E kw \in TriggerKeywords : Includes(lastUserMsg, kw)
SkipKeywords == { <<"skip">>, <<"next">> }
\* variant: no text counts as a request to skip
IsSkipNever(lastUserMsg) == FALSE
IsSkip(lastUserMsg) == \E kw \in SkipKeywords : Includes(lastUserMsg, kw)

\* ------------------------------------------------------------- LLMService
Providers == {"openai", "anthropic", "google", "ollama"}

\* The provider tags that reach configure and getAvailableModels: the ipc handler passes on any
\* string (config.provider as any), as does the restore from settings.json.
ProviderTags == Providers \cup {"azure"}

\* Pieces of a model's output.  A json token is the text of one JSON value.
FenceJson == [t |-> "fence_json"]
Fence == [t |-> "fence"]
Space == [t |-> "ws"]
Prose == [t |-> "prose"]
Json(v) == [t |-> "json", v |-> v]

\* What the backend does with one request: it streams chunks to completion,
\* fails on opening the stream, fails after some chunks, or never answers.
Completes(chunks) == [kind |-> "complete", chunks |-> chunks]
FailsOnOpen == [kind |-> "throw", chunks |-> <<>>]
FailsAfter(chunks) == [kind |-> "throw", chunks |-> chunks]
NeverAnswers == [kind |-> "hang", chunks |-> <<>>]
\* the stream completes, but only after the 60 s timer has fired
AnswersLate(chunks) == [kind |-> "late", chunks |-> chunks]

\* the fixed reply of an unconfigured service, embedding the last message
MockReply(lastMsg) == [k |-> "mock", heard |-> lastMsg]
\* the catch of chat: an error string naming this.currentProvider
ErrorReply(provider, message) == [k |-> "error", provider |-> provider, message |-> message]
TimeoutMessage == "Request timed out after 60 seconds"
BackendMessage == "backend failure"

\* the stream loop: fullContent += chunkText for every chunk
RECURSIVE Accumulate(_)
Accumulate(chunks) ==
    IF chunks = <<>> THEN <<>> ELSE Head(chunks) \o Accumulate(Tail(chunks))

\* chat without its try/catch: a backend failure or the timeout leaves chat
ChatUncaught(model, provider, backend, lastMsg) ==
    IF model = "null" THEN MockReply(lastMsg)
    ELSE CASE backend.kind = "complete" ->
                  [k |-> "text", toks |-> Accumulate(backend.chunks)]
           [] backend.kind = "throw" -> [k |-> "raise", message |-> BackendMessage]
           [] OTHER -> [k |-> "raise", message |-> TimeoutMessage]

\* variant: chat awaits the stream alone, however long it takes
ChatAwaitsStream(model, provider, backend, lastMsg) ==
    IF model = "null" THEN MockReply(lastMsg)
    ELSE CASE backend.kind \in {"complete", "late"} ->
                  [k |-> "text", toks |-> Accumulate(backend.chunks)]
           [] backend.kind = "throw" -> ErrorReply(provider, BackendMessage)
           [] OTHER -> ErrorReply(provider, TimeoutMessage)

\* a promise that has not settled: the code awaiting it does not resume
Pending(x) == x.k = "pending"

\* variant: chat without its timeout: it settles when the stream does
ChatWithoutTimeout(model, provider, backend, lastMsg) ==
    IF model = "null" THEN MockReply(lastMsg)
    ELSE CASE backend.kind \in {"complete", "late"} ->
                  [k |-> "text", toks |-> Accumulate(backend.chunks)]
           [] backend.kind = "throw" -> ErrorReply(provider, BackendMessage)
           [] OTHER -> [k |-> "pending"]

\* chat(messages): model is this.model when the call was issued ("null" when
\* unconfigured), provider is this.currentProvider when the catch runs.
Chat(model, provider, backend, lastMsg) ==
    IF model = "null" THEN MockReply(lastMsg)
    ELSE CASE backend.kind = "complete" ->
                  [k |-> "text", toks |-> Accumulate(backend.chunks)]
           [] backend.kind = "throw" -> ErrorReply(provider, BackendMessage)
           [] OTHER -> ErrorReply(provider, TimeoutMessage)

\* the characters of a reply, as tokens
TokensOf(response) == IF response.k = "text" THEN response.toks ELSE <<Prose>>

\* ------------------------------------------------- JSON extraction contract
IsFence(tok) == tok.t \in {"fence_json", "fence"}
NotFence(tok) == ~IsFence(tok)

RECURSIVE TrimLeft(_)
TrimLeft(toks) ==
    IF toks # <<>> /\ Head(toks).t = "ws" THEN TrimLeft(Tail(toks)) ELSE toks

RECURSIVE TrimRight(_)
TrimRight(toks) ==
    IF toks # <<>> /\ toks[Len(toks)].t = "ws"
    THEN TrimRight(SubSeq(toks, 1, Len(toks) - 1)) ELSE toks

\* cleanJson: both fence markers removed wherever they occur, then trim()
CleanJson(response) == TrimRight(TrimLeft(SelectSeq(TokensOf(response), NotFence)))

\* JSON.parse: one JSON value, white space around it allowed; anything else raises
ParseOk(toks) ==
    LET core == SelectSeq(toks, LAMBDA tok : tok.t # "ws")
    IN Len(core) = 1 /\ core[1].t \in {"json", "text"}
ParseValue(toks) ==
    The({IF tok.t = "text" THEN Deserialize(tok.text) ELSE tok.v :
            tok \in {SelectSeq(toks, LAMBDA x : x.t # "ws")[1]}})

\* ------------------------------------------------------------- task trees
\* a node is named by the child indices that lead to it from the root
RECURSIVE NodeAt(_, _)
NodeAt(node, path) ==
    IF path = <<>> THEN node
    ELSE NodeAt(node.children.items[Head(path)], Tail(path))

\* variant: the task that received sub-tasks is also marked completed
RECURSIVE AttachAndComplete(_, _, _)
AttachAndComplete(node, path, subTasks) ==
    IF path = <<>>
    THEN [node EXCEPT !.children = subTasks, !.decomposed = JTrue, !.status = "completed"]
    ELSE [node EXCEPT !.children.items[Head(path)] =
              AttachAndComplete(node.children.items[Head(path)], Tail(path), subTasks)]

\* task.children = subTasks; task.decomposed = true, on the node at path
RECURSIVE AttachAt(_, _, _)
AttachAt(node, path, subTasks) ==
    IF path = <<>>
    THEN [node EXCEPT !.children = subTasks, !.decomposed = JTrue]
    ELSE [node EXCEPT !.children.items[Head(path)] =
              AttachAt(node.children.items[Head(path)], Tail(path), subTasks)]

\* variant: the condition without its test of the children
EligibleAnyChildren(node) ==
    /\ node.k = "obj"
    /\ node.type = "main-task"
    /\ ~Truthy(node.decomposed)

\* the condition of findTasksToDecompose
Eligible(node) ==
    /\ node.k = "obj"
    /\ node.type = "main-task"
    /\ ~Truthy(node.decomposed)
    /\ (~Truthy(node.children) \/ LengthOf(node.children) = 0)

Found(paths) == [threw |-> FALSE, paths |-> paths]
FindThrew == [threw |-> TRUE, paths |-> <<>>]

\* findTasksToDecompose(node, results): the eligible nodes in the order the
\* recursion pushes them, or a TypeError (a null node, children not iterable)
RECURSIVE FindTasksToDecompose(_, _)
RECURSIVE FindInChildren(_, _, _)
FindInChildren(items, path, j) ==
    IF j > Len(items) THEN Found(<<>>)
    ELSE LET first == FindTasksToDecompose(items[j], Append(path, j))
             rest == FindInChildren(items, path, j + 1)
         IN IF first.threw THEN FindThrew
            ELSE IF rest.threw THEN FindThrew
            ELSE Found(first.paths \o rest.paths)

FindTasksToDecompose(node, path) ==
    IF PropThrows(node) THEN FindThrew
    ELSE LET self == IF Eligible(node) THEN <<path>> ELSE <<>>
             children == ChildrenOf(node)
         IN CASE ~Truthy(children) -> Found(self)
              [] children.k = "arr" ->
                    LET below == FindInChildren(children.items, path, 1)
                    IN IF below.threw THEN FindThrew ELSE Found(self \o below.paths)
              \* the characters of a string have neither type nor children
              [] children.k = "str" -> Found(self)
              \* for...of over a number, a boolean or a plain object
              [] OTHER -> FindThrew

\* ---------------------------------------------------------- AgentFileSystem
\* tasks.json under the project root and the backups directory
NoFile == [exists |-> FALSE, content |-> <<>>, backups |-> <<>>]

\* JSON.stringify(value, null, 2): the text of the value
Stringify(v) == <<[t |-> "text", text |-> Serialize(v)]>>

\* variant: the file is overwritten without a copy of what it held
WriteSafeNoBackup(fs, content) ==
    [exists |-> TRUE, content |-> content, backups |-> fs.backups]

\* writeSafe when every file operation succeeds
WriteSafe(fs, content) ==
    [exists |-> TRUE, content |-> content,
     backups |-> IF fs.exists THEN Append(fs.backups, fs.content) ELSE fs.backups]

\* writeSafe when a file operation raises: before anything was changed, or
\* after the backup copy was made
WriteSafeFailures(fs) ==
    {fs} \cup (IF fs.exists
               THEN {[fs EXCEPT !.backups = Append(fs.backups, fs.content)]}
               ELSE {})

\* readFile: the content, or an error when the file is absent or unreadable
ReadRaises(fs, io) == ~fs.exists \/ io = "fail"
ReadErrorMessage(fs) == IF fs.exists THEN "EACCES" ELSE "ENOENT"

\* ------------------------------------------------ what the model answers
\* main-task n as the generation prompt asks for it
MainTask(n) == TaskNode(ToString(n), "Task" \o ToString(n), "main-task", JArr(<<>>), Undef)
SubTask(id, n) ==
    TaskNode(id \o "-" \o ToString(n), "Sub" \o id \o "-" \o ToString(n), "sub-task",
             JArr(<<>>), Undef)

\* a project with k fresh main-tasks
Project(k) ==
    TaskNode("root", "Project" \o ToString(k), "project", JArr([n \in 1..k |-> MainTask(n)]), Undef)

\* a project whose tree mixes decomposed, nested and child-less nodes
MixedProject ==
    TaskNode("root", "Mixed", "project",
        JArr(<< TaskNode("1", "Task1", "main-task",
                    JArr(<<SubTask("1", 1)>>), JTrue),
                TaskNode("2", "Group2", "sub-task",
                    JArr(<<TaskNode("2-1", "Task2-1", "main-task", Undef, Undef)>>),
                    Undef) >>),
        Undef)

\* the JSON values a generation reply may hold
GenValues == {JNull, MixedProject, Project(0), Project(MaxTasks)}

\* the JSON values a decomposition reply may hold for the task with this id
SubTasks(id, n) == JArr([j \in 1..n |-> SubTask(id, j)])
DecValues(id) == {JNull, JNum(5)} \cup {SubTasks(id, n) : n \in 0..MaxSub}

\* the ways a model writes a JSON value, bare or fenced, and two that do not parse
Outputs(values) ==
    {<<Prose>>}
    \cup {<<Json(v)>> : v \in values}
    \cup {<<FenceJson, Space, Json(v), Space, Fence>> : v \in values}
    \cup {<<Json(v), Prose>> : v \in values}

\* the backend's behaviours for a request whose answers are drawn from outputs:
\* one chunk per token
Chunked(out) == [j \in DOMAIN out |-> <<out[j]>>]
Backends(outputs) ==
    {FailsOnOpen, NeverAnswers}
    \cup {Completes(Chunked(out)) : out \in outputs}
    \cup {FailsAfter(Chunked(out)) : out \in outputs}

\* the same, and the streams that complete too late (to the engine these are
\* streams that never answer)
TimedBackends(outputs) ==
    Backends(outputs) \cup {AnswersLate(Chunked(out)) : out \in outputs}

\* ---------------------------------------------------------- WorkflowEngine
VARIABLES
    currentStep,    \* WorkflowEngine.currentStep
    isDecomposing,  \* WorkflowEngine.isDecomposing
    chatHistory,    \* context.chatHistory
    llm,            \* LLMService.model and LLMService.currentProvider
    fsys,           \* tasks.json and its backups
    pc,             \* where each processMessage invocation is suspended
    local,          \* the local variables of each invocation
    outcome,        \* how each invocation ended: its reply, or an exception
    call,           \* one method called on its own: its arguments, then its result
    backendDown     \* the provider's endpoint has stopped answering for good

vars == <<currentStep, isDecomposing, chatHistory, llm, fsys, pc, local, outcome, call,
          backendDown>>

engine == <<currentStep, isDecomposing, chatHistory, llm, fsys, pc, local, outcome>>

\* what the engine's own steps leave alone
aside == <<call, backendDown>>

\* no method is being called on its own
NoCall == [op |-> "none"]

Invocations == 1..MaxInv

HumanMessage(text) == [type |-> "human", content |-> [k |-> "user", words |-> text]]
SystemMessage(response) == [type |-> "system", content |-> response]
\* variant: the reply is recorded under the tag of a user message
AIMessageAsHuman(response) == [type |-> "human", content |-> response]
AIMessage(response) == [type |-> "ai", content |-> response]

\* await this.sleep(1500)
SleepMs == 1500

\* this.context.chatHistory.slice(-10)
HistoryWindow == 10
Slice(history, n) ==
    SubSeq(history, IF Len(history) > n THEN Len(history) - n + 1 ELSE 1, Len(history))
SystemPrompt == SystemMessage([k |-> "prompt", purpose |-> "interview"])
GenerationPrompt == [type |-> "human", content |-> [k |-> "prompt", purpose |-> "generate"]]
DecompositionPrompt(task) ==
    [type |-> "human", content |-> [k |-> "prompt", purpose |-> "decompose", task |-> task.title]]

\* the reply texts of the engine
LlmReply(text) == [k |-> "llm", text |-> text]
GenerationComplete(title, count) == [k |-> "Step 2 Complete", title |-> title, count |-> count]
GenerationFailed == [k |-> "failed to parse the output"]
Generating == [k |-> "generating the initial task list"]
\* variant: the placeholder names the step after the current one
NotReadyForNext(step) == [k |-> "not ready for step", step |-> step + 1]
NotReady(step) == [k |-> "not ready for step", step |-> step]
AlreadyInProgress == [k |-> "already in progress"]
Skipping == [k |-> "Skipping decomposition"]
DecompositionMenu == [k |-> "Step 3 options"]
NoTasksFound == [k |-> "No tasks.json found"]
AllDecomposed == [k |-> "All tasks are already decomposed"]
DecompositionComplete(results, count) ==
    [k |-> "Decomposition Complete", results |-> results, count |-> count]
DecompositionError(message) == [k |-> "Error during decomposition", message |-> message]

\* the lines of the results array
SuccessLine(title, count) == [mark |-> "ok", title |-> title, count |-> count]
FailureLine(title, message) == [mark |-> "failed", title |-> title, message |-> message]

\* an exception travelling up the call stack
Raise(message) == [k |-> "raise", message |-> message]
Raised(x) == x.k = "raise"

Fresh ==
    [chatModel |-> "null", lastMsg |-> Undef, projectNode |-> Undef, rootTask |-> Undef,
     tasksToDecompose |-> <<>>, i |-> 0, decomposedCount |-> 0, results |-> <<>>,
     events |-> <<>>]

\* the engine as its constructor leaves it
Constructed ==
    /\ currentStep = INITIATION
    /\ isDecomposing = FALSE
    /\ chatHistory = <<>>
    /\ llm = [model |-> "null", currentProvider |-> "null"]
    /\ fsys = NoFile
    /\ pc = [p \in Invocations |-> "idle"]
    /\ local = [p \in Invocations |-> Fresh]
    /\ outcome = [p \in Invocations |-> [status |-> "none", response |-> Undef, run |-> Fresh]]

Init == Constructed /\ call = NoCall /\ backendDown = FALSE

\* processMessage steps 3 and 4: the reply is appended and returned.  The
\* invocation's local variables die with it; run keeps those of a completed
\* decomposition run for the record.
ReturnAfter(p, history, response, run) ==
    /\ chatHistory' = Append(history, AIMessage(response))
    /\ pc' = [pc EXCEPT ![p] = "done"]
    /\ local' = [local EXCEPT ![p] = Fresh]
    /\ outcome' = [outcome EXCEPT ![p] =
           [status |-> "returned", response |-> response, run |-> run]]

Return(p, history, response) == ReturnAfter(p, history, response, Fresh)

\* an exception no handler catches leaves processMessage
Reject(p, history, error) ==
    /\ chatHistory' = history
    /\ pc' = [pc EXCEPT ![p] = "done"]
    /\ local' = [local EXCEPT ![p] = Fresh]
    /\ outcome' = [outcome EXCEPT ![p] = [status |-> "threw", response |-> error, run |-> Fresh]]

\* what an invocation has asked of its collaborators, in order
ChatEvent(lastMsg) == [e |-> "chat", about |-> lastMsg]
ReadEvent == [e |-> "read"]
WriteEvent == [e |-> "write"]
\* a delay that ends at once
NoDelay(ms) == [e |-> "sleep", ms |-> 0]
SleepEvent(ms) == [e |-> "sleep", ms |-> ms]

\* this.llm.chat(messages) is issued: chat reads this.model before it suspends
IssueChat(loc, messages) ==
    [loc EXCEPT !.chatModel = llm.model,
                !.lastMsg = messages[Len(messages)].content,
                !.events = Append(@, ChatEvent(messages[Len(messages)].content))]

\* what the backend can do with a request now
Reachable(backends) == IF backendDown THEN {NeverAnswers} ELSE backends

\* what the pending chat call of invocation p returns when the backend does b
ChatResult(p, b) == Chat(local[p].chatModel, llm.currentProvider, b, local[p].lastMsg)

\* the pending call is over
Settled(loc) == [loc EXCEPT !.chatModel = "null", !.lastMsg = Undef]

HandleInitiationStep(p, history, lastUserMsg) ==
    IF IsConfirmation(lastUserMsg)
    THEN /\ currentStep' = TASK_GENERATION
         /\ chatHistory' = history
         /\ pc' = [pc EXCEPT ![p] = "gen_chat"]
         /\ local' = [local EXCEPT ![p] = IssueChat(@, <<GenerationPrompt>>)]
         /\ UNCHANGED <<isDecomposing, outcome>>
    ELSE /\ chatHistory' = history
         /\ pc' = [pc EXCEPT ![p] = "init_chat"]
         /\ local' = [local EXCEPT ![p] =
                IssueChat(@, <<SystemPrompt>> \o Slice(history, HistoryWindow))]
         /\ UNCHANGED <<currentStep, isDecomposing, outcome>>

\* variant: a trigger starts a run whatever the in-progress flag says
HandleDecompositionStepUnguarded(p, history, lastUserMsg) ==
    IF IsTrigger(lastUserMsg)
    THEN /\ isDecomposing' = TRUE
         /\ chatHistory' = history
         /\ pc' = [pc EXCEPT ![p] = "dec_read"]
         /\ local' = [local EXCEPT ![p].events = Append(@, ReadEvent)]
         /\ UNCHANGED <<currentStep, outcome>>
    ELSE IF IsSkip(lastUserMsg)
    THEN /\ currentStep' = ANALYSIS
         /\ Return(p, history, Skipping)
         /\ UNCHANGED isDecomposing
    ELSE /\ Return(p, history, DecompositionMenu)
         /\ UNCHANGED <<currentStep, isDecomposing>>

\* variant: the skip keywords are tested before the trigger keywords
HandleDecompositionStepSkipFirst(p, history, lastUserMsg) ==
    IF IsSkip(lastUserMsg)
    THEN /\ currentStep' = ANALYSIS
         /\ Return(p, history, Skipping)
         /\ UNCHANGED isDecomposing
    ELSE IF IsTrigger(lastUserMsg)
    THEN IF isDecomposing
         THEN /\ Return(p, history, AlreadyInProgress)
              /\ UNCHANGED <<currentStep, isDecomposing>>
         ELSE /\ isDecomposing' = TRUE
              /\ chatHistory' = history
              /\ pc' = [pc EXCEPT ![p] = "dec_read"]
              /\ local' = [local EXCEPT ![p].events = Append(@, ReadEvent)]
              /\ UNCHANGED <<currentStep, outcome>>
    ELSE /\ Return(p, history, DecompositionMenu)
         /\ UNCHANGED <<currentStep, isDecomposing>>

\* handleDecompositionStep, and runDecomposition up to its first suspension
HandleDecompositionStep(p, history, lastUserMsg) ==
    IF IsTrigger(lastUserMsg)
    THEN IF isDecomposing
         THEN /\ Return(p, history, AlreadyInProgress)
              /\ UNCHANGED <<currentStep, isDecomposing>>
         \* runDecomposition up to the read of tasks.json
         ELSE /\ isDecomposing' = TRUE
              /\ chatHistory' = history
              /\ pc' = [pc EXCEPT ![p] = "dec_read"]
              /\ local' = [local EXCEPT ![p].events = Append(@, ReadEvent)]
              /\ UNCHANGED <<currentStep, outcome>>
    ELSE IF IsSkip(lastUserMsg)
    THEN /\ currentStep' = ANALYSIS
         /\ Return(p, history, Skipping)
         /\ UNCHANGED isDecomposing
    ELSE /\ Return(p, history, DecompositionMenu)
         /\ UNCHANGED <<currentStep, isDecomposing>>

\* processMessage(userMessage), up to its first suspension
Start(p, text) ==
    /\ pc[p] = "idle"
    \* invocations are numbered in the order they start
    /\ IF p = 1 THEN TRUE ELSE pc[p - 1] # "idle"
    /\ LET history == Append(chatHistory, HumanMessage(text))
           lastUserMsg == ToLowerCase(history[Len(history)].content.words)
       IN CASE currentStep = INITIATION -> HandleInitiationStep(p, history, lastUserMsg)
            [] currentStep = TASK_GENERATION ->
                  /\ Return(p, history, Generating)
                  /\ UNCHANGED <<currentStep, isDecomposing>>
            [] currentStep = DECOMPOSITION -> HandleDecompositionStep(p, history, lastUserMsg)
            [] OTHER ->
                  /\ Return(p, history, NotReady(currentStep))
                  /\ UNCHANGED <<currentStep, isDecomposing>>
    /\ UNCHANGED <<llm, fsys, aside>>

\* handleInitiationStep: the interview reply arrives
InterviewReply(p) ==
    /\ pc[p] = "init_chat"
    /\ \E b \in Reachable(Backends({<<Prose>>})) :
           LET response == ChatResult(p, b)
           IN /\ ~Pending(response)
              /\ IF Raised(response)
                 THEN Reject(p, chatHistory, response)
                 ELSE Return(p, chatHistory, LlmReply(response))
    /\ UNCHANGED <<currentStep, isDecomposing, llm, fsys, aside>>

\* projectNode.title and projectNode.children?.length || 0 of the summary
TitleOf(v) == IF v.k = "obj" THEN v.title ELSE "undefined"
ChildCount(v) ==
    LET children == ChildrenOf(v)
    IN IF PropThrows(children) \/ LengthOf(children) < 0 THEN 0 ELSE LengthOf(children)

\* variant: a generation that failed goes back to the first step
StepResetOnFailure(step) == INITIATION

\* variant: a generation that failed moves on to the next step
StepAdvancesOnFailure(step) == DECOMPOSITION

\* the catch of generateHighLevelTasks returns the failure text and assigns
\* nothing: currentStep stays what handleInitiationStep made it
StepAfterFailedGeneration(step) == step

\* generateHighLevelTasks: the model's answer arrives; cleanJson and JSON.parse
\* run inside the try, then writeSafe is issued
GenerationReply(p) ==
    /\ pc[p] = "gen_chat"
    /\ \E b \in Reachable(Backends(Outputs(GenValues))) :
           LET response == ChatResult(p, b)
               cleanJson == CleanJson(response)
           IN /\ ~Pending(response)
              /\ IF Raised(response)
                 THEN /\ Reject(p, chatHistory, response)
                      /\ UNCHANGED currentStep
                 ELSE IF ~ParseOk(cleanJson)
                 THEN /\ Return(p, chatHistory, GenerationFailed)
                      /\ currentStep' = StepAfterFailedGeneration(currentStep)
                 ELSE /\ pc' = [pc EXCEPT ![p] = "gen_write"]
                      /\ local' = [local EXCEPT ![p] =
                             [Settled(@) EXCEPT !.projectNode = ParseValue(cleanJson),
                                                !.events = Append(@, WriteEvent)]]
                      /\ UNCHANGED <<currentStep, chatHistory, outcome>>
    /\ UNCHANGED <<isDecomposing, llm, fsys, aside>>

\* the summary of generateHighLevelTasks, or the reply of its catch when
\* building the summary raises
GenerationSummary(projectNode) ==
    IF PropThrows(projectNode)
    THEN GenerationFailed
    ELSE GenerationComplete(TitleOf(projectNode), ChildCount(projectNode))

\* generateHighLevelTasks: writeSafe("tasks.json") ends
GenerationWritten(p) ==
    /\ pc[p] = "gen_write"
    /\ \/ /\ fsys' = WriteSafe(fsys, Stringify(local[p].projectNode))
          /\ currentStep' = DECOMPOSITION
          /\ Return(p, chatHistory, GenerationSummary(local[p].projectNode))
       \/ /\ fsys' \in WriteSafeFailures(fsys)
          /\ Return(p, chatHistory, GenerationFailed)
          /\ currentStep' = StepAfterFailedGeneration(currentStep)
    /\ UNCHANGED <<isDecomposing, llm, aside>>

\* the catch of runDecomposition
DecompositionCaught(p, message) ==
    /\ isDecomposing' = FALSE
    /\ Return(p, chatHistory, DecompositionError(message))
    /\ UNCHANGED currentStep

\* runDecomposition: readFile("tasks.json") ends; the tree is parsed and
\* searched and the first task's request is issued (no delay before it)
DecompositionRead(p) ==
    /\ pc[p] = "dec_read"
    /\ \E io \in {"ok", "fail"} :
         IF ReadRaises(fsys, io)
         THEN DecompositionCaught(p, ReadErrorMessage(fsys))
         ELSE IF fsys.content = <<>>
         THEN /\ Return(p, chatHistory, NoTasksFound)
              /\ UNCHANGED <<currentStep, isDecomposing>>
         ELSE IF ~ParseOk(fsys.content)
         THEN DecompositionCaught(p, "SyntaxError")
         ELSE \E rootTask \in {ParseValue(fsys.content)} :
              \E found \in {FindTasksToDecompose(rootTask, <<>>)} :
                 IF found.threw
                 THEN DecompositionCaught(p, "TypeError")
                 ELSE IF Len(found.paths) = 0
                 THEN /\ currentStep' = ANALYSIS
                      /\ Return(p, chatHistory, AllDecomposed)
                      /\ UNCHANGED isDecomposing
                 ELSE /\ pc' = [pc EXCEPT ![p] = "dec_chat"]
                      /\ local' = [local EXCEPT ![p] =
                             IssueChat([@ EXCEPT !.rootTask = rootTask,
                                                 !.tasksToDecompose = found.paths,
                                                 !.i = 0],
                                       <<DecompositionPrompt(NodeAt(rootTask, found.paths[1]))>>)]
                      /\ UNCHANGED <<currentStep, isDecomposing, chatHistory, outcome>>
    /\ UNCHANGED <<llm, fsys, aside>>

\* decomposeTask after the model answered: the parsed value, or an exception
DecomposeTask(response) ==
    IF Raised(response) THEN response
    ELSE IF ~ParseOk(CleanJson(response)) THEN Raise("Failed to parse LLM response")
    ELSE ParseValue(CleanJson(response))

\* variant: the tree is also saved at the end of every iteration
AttemptTaskAndSave(loc, subTasks) == [loc EXCEPT !.events = Append(@, WriteEvent)]

\* the body of the loop of runDecomposition for task i, from the value
\* decomposeTask returned (or the exception it raised) to the end of the
\* inner try/catch
AttemptTask(loc, subTasks) ==
    LET path == loc.tasksToDecompose[loc.i + 1]
        task == NodeAt(loc.rootTask, path)
    IN CASE Raised(subTasks) ->
              [loc EXCEPT !.results = Append(@, FailureLine(task.title, subTasks.message))]
         [] PropThrows(subTasks) ->
              [loc EXCEPT !.results = Append(@, FailureLine(task.title, "TypeError"))]
         [] LengthOf(subTasks) > 0 ->
              [loc EXCEPT !.rootTask = AttachAt(@, path, subTasks),
                          !.decomposedCount = @ + 1,
                          !.results = Append(@, SuccessLine(task.title, LengthOf(subTasks)))]
         [] OTHER -> loc

\* the for loop's condition: i < tasksToDecompose.length, whatever the
\* attempts before it produced
LoopStopsAfterFailure(loc) ==
    /\ loc.i < Len(loc.tasksToDecompose)
    /\ \A j \in DOMAIN loc.results : loc.results[j].mark # "failed"

LoopContinues(loc) == loc.i < Len(loc.tasksToDecompose)

\* runDecomposition: the answer for task i arrives; then either the delay
\* before the next task starts, or the tree is written
DecompositionReply(p) ==
    /\ pc[p] = "dec_chat"
    /\ LET task == NodeAt(local[p].rootTask, local[p].tasksToDecompose[local[p].i + 1])
       IN \E b \in Reachable(Backends(Outputs(DecValues(task.id)))) :
           LET response == ChatResult(p, b)
               attempted == AttemptTask(local[p], DecomposeTask(response))
               next == [Settled(attempted) EXCEPT !.i = @ + 1]
           IN /\ ~Pending(response)
              /\ IF LoopContinues(next)
                 THEN /\ pc' = [pc EXCEPT ![p] = "dec_sleep"]
                      /\ local' = [local EXCEPT ![p] =
                             [next EXCEPT !.events = Append(@, SleepEvent(SleepMs))]]
                 ELSE /\ pc' = [pc EXCEPT ![p] = "dec_write"]
                      /\ local' = [local EXCEPT ![p] =
                             [next EXCEPT !.events = Append(@, WriteEvent)]]
    /\ UNCHANGED <<currentStep, isDecomposing, chatHistory, llm, fsys, outcome, aside>>

\* runDecomposition: the 1.5 s delay ends and the next task's request is issued
DecompositionDelayEnds(p) ==
    /\ pc[p] = "dec_sleep"
    /\ pc' = [pc EXCEPT ![p] = "dec_chat"]
    /\ local' = [local EXCEPT ![p] =
           IssueChat(@, <<DecompositionPrompt(
               NodeAt(local[p].rootTask, local[p].tasksToDecompose[local[p].i + 1]))>>)]
    /\ UNCHANGED <<currentStep, isDecomposing, chatHistory, llm, fsys, outcome, aside>>

\* a run that stays in its step when none of its tasks was decomposed
DecompositionWrittenRetries(p) ==
    /\ pc[p] = "dec_write"
    /\ \/ /\ fsys' = WriteSafe(fsys, Stringify(local[p].rootTask))
          /\ isDecomposing' = FALSE
          /\ currentStep' = IF local[p].decomposedCount = 0 THEN currentStep ELSE ANALYSIS
          /\ ReturnAfter(p, chatHistory,
                DecompositionComplete(local[p].results, local[p].decomposedCount),
                local[p])
       \/ /\ fsys' \in WriteSafeFailures(fsys)
          /\ DecompositionCaught(p, "write failed")
    /\ UNCHANGED <<llm, aside>>

\* runDecomposition: writeSafe("tasks.json") ends
DecompositionWritten(p) ==
    /\ pc[p] = "dec_write"
    /\ \/ /\ fsys' = WriteSafe(fsys, Stringify(local[p].rootTask))
          /\ isDecomposing' = FALSE
          /\ currentStep' = ANALYSIS
          /\ ReturnAfter(p, chatHistory,
                DecompositionComplete(local[p].results, local[p].decomposedCount),
                local[p])
       \/ /\ fsys' \in WriteSafeFailures(fsys)
          /\ DecompositionCaught(p, "write failed")
    /\ UNCHANGED <<llm, aside>>

\* the model stops following the environment once every invocation has ended
Observable == \E p \in Invocations : pc[p] # "done"

\* the providers the settings screen selects in this model
ConfigInputs == {"google", "ollama"}

\* this.model after the switch of configure: the adapter built for the
\* provider; the switch has no default, so any other tag leaves it as it was
ModelAfterSwitch(provider, previous) ==
    IF provider \in Providers THEN provider ELSE previous

\* LLMService.configure(provider, modelId, apiKey)
Configure(provider) ==
    /\ Observable
    /\ llm.currentProvider # provider
    /\ llm' = [model |-> ModelAfterSwitch(provider, llm.model), currentProvider |-> provider]
    /\ UNCHANGED <<currentStep, isDecomposing, chatHistory, fsys, pc, local, outcome, aside>>

\* another program deletes tasks.json or truncates it
Tamper(kind) ==
    /\ Observable
    /\ fsys.exists
    /\ fsys' = IF kind = "delete"
               THEN [fsys EXCEPT !.exists = FALSE, !.content = <<>>]
               ELSE [fsys EXCEPT !.content = <<>>]
    /\ fsys' # fsys
    /\ UNCHANGED <<currentStep, isDecomposing, chatHistory, llm, pc, local, outcome, aside>>

Next ==
    \/ \E p \in Invocations, text \in UserTexts : Start(p, text)
    \/ \E p \in Invocations : InterviewReply(p)
    \/ \E p \in Invocations : GenerationReply(p)
    \/ \E p \in Invocations : GenerationWritten(p)
    \/ \E p \in Invocations : DecompositionRead(p)
    \/ \E p \in Invocations : DecompositionReply(p)
    \/ \E p \in Invocations : DecompositionDelayEnds(p)
    \/ \E p \in Invocations : DecompositionWritten(p)
    \/ \E provider \in ConfigInputs : Configure(provider)
    \/ \E kind \in {"delete", "truncate"} : Tamper(kind)

Spec == Init /\ [][Next]_vars

\* The host sends one message at a time: a processMessage invocation starts
\* only when every earlier one has returned.
NoneInFlight == \A p \in Invocations : pc[p] \in {"idle", "done"}

NextSeq ==
    \/ \E p \in Invocations, text \in UserTexts : NoneInFlight /\ Start(p, text)
    \/ \E p \in Invocations : InterviewReply(p)
    \/ \E p \in Invocations : GenerationReply(p)
    \/ \E p \in Invocations : GenerationWritten(p)
    \/ \E p \in Invocations : DecompositionRead(p)
    \/ \E p \in Invocations : DecompositionReply(p)
    \/ \E p \in Invocations : DecompositionDelayEnds(p)
    \/ \E p \in Invocations : DecompositionWritten(p)
    \/ \E provider \in ConfigInputs : Configure(provider)
    \/ \E kind \in {"delete", "truncate"} : Tamper(kind)

SpecSeq == Init /\ [][NextSeq]_vars

\* The provider's endpoint goes down and stays down.
BackendGoesDown ==
    /\ Observable
    /\ ~backendDown
    /\ backendDown' = TRUE
    /\ UNCHANGED <<engine, call>>

\* what the event loop resumes: the continuation of an invocation whose
\* awaited promise has settled
Resume ==
    \E p \in Invocations :
        \/ InterviewReply(p)
        \/ GenerationReply(p)
        \/ GenerationWritten(p)
        \/ DecompositionRead(p)
        \/ DecompositionReply(p)
        \/ DecompositionDelayEnds(p)
        \/ DecompositionWritten(p)

NextLive ==
    \/ \E p \in Invocations, text \in UserTexts : Start(p, text)
    \/ \E p \in Invocations : InterviewReply(p)
    \/ \E p \in Invocations : GenerationReply(p)
    \/ \E p \in Invocations : GenerationWritten(p)
    \/ \E p \in Invocations : DecompositionRead(p)
    \/ \E p \in Invocations : DecompositionReply(p)
    \/ \E p \in Invocations : DecompositionDelayEnds(p)
    \/ \E p \in Invocations : DecompositionWritten(p)
    \/ \E provider \in ConfigInputs : Configure(provider)
    \/ \E kind \in {"delete", "truncate"} : Tamper(kind)
    \/ BackendGoesDown

\* Timers fire and storage operations complete, and the event loop runs the
\* continuation of every settled promise.
SpecLive == Init /\ [][NextLive]_vars /\ WF_vars(Resume)

\* ------------------------------------------- methods called on their own
\* TaskNode trees: nodes without children, nodes over such nodes, and
\* projects over those
LeafNodes ==
    {TaskNode("n", "Leaf", type, children, decomposed) :
        type \in {"main-task", "sub-task"},
        children \in {Undef, JArr(<<>>)},
        decomposed \in {Undef, JTrue}}

SeqsUpTo(S, n) == UNION {[1..m -> S] : m \in 1..n}

InnerNodes ==
    {TaskNode("m", "Inner", type, JArr(items), decomposed) :
        type \in {"main-task", "sub-task"},
        items \in SeqsUpTo(LeafNodes, MaxWidth),
        decomposed \in {Undef, JTrue}}

Root(items) == TaskNode("root", "Root", "project", JArr(items), Undef)

Trees ==
    LeafNodes \cup InnerNodes
    \cup {Root(<<m>>) : m \in InnerNodes}
    \cup {Root(<<m, l>>) : m \in {x \in InnerNodes : Len(x.children.items) = 1},
                           l \in LeafNodes}

FindCalls ==
    {[op |-> "findTasksToDecompose", phase |-> "called", node |-> t, result |-> Undef] :
        t \in Trees}

\* this.findTasksToDecompose(rootTask)
CallFindTasksToDecompose ==
    /\ call.op = "findTasksToDecompose"
    /\ call.phase = "called"
    /\ call' = [call EXCEPT !.phase = "returned",
                            !.result = FindTasksToDecompose(call.node, <<>>)]
    /\ UNCHANGED <<engine, backendDown>>

\* chat(messages) on a service in a given state: the mock branch reads
\* messages[messages.length - 1].content before any try
ChatOf(service, backend, messages) ==
    IF service.model = "null" /\ messages = <<>>
    THEN Raise("TypeError")
    ELSE Chat(service.model, service.currentProvider, backend,
              IF messages = <<>> THEN Undef ELSE messages[Len(messages)].content)

\* a service never configured, or configured for one of the providers
Services ==
    {[model |-> "null", currentProvider |-> "null"]}
    \cup {[model |-> provider, currentProvider |-> provider] : provider \in Providers}

MessageLists ==
    {<<>>}
    \cup {<<HumanMessage(text)>> : text \in UserTexts}
    \cup {<<SystemPrompt, HumanMessage(text)>> : text \in UserTexts}
    \cup {<<HumanMessage(text), AIMessage(Generating)>> : text \in UserTexts}

ChatCalls ==
    {[op |-> "chat", phase |-> "called", service |-> service, messages |-> messages,
      backend |-> backend, result |-> Undef] :
        service \in Services, messages \in MessageLists,
        backend \in TimedBackends(Outputs(GenValues))}

\* llm.chat(messages)
CallChat ==
    /\ call.op = "chat"
    /\ call.phase = "called"
    /\ call' = [call EXCEPT !.phase = "returned",
                            !.result = ChatOf(call.service, call.backend, call.messages)]
    /\ UNCHANGED <<engine, backendDown>>

\* msg.getType() of the messages a caller may pass, and contents as
\* sequences of characters (<<>> is the empty string)
Tags == {"system", "human", "ai", "tool"}
Contents == {<<>>, <<"a">>, <<"b">>}
Tagged(type, content) == [type |-> type, content |-> content]

\* array.join('\n\n')
RECURSIVE JoinContents(_)
JoinContents(contents) ==
    IF contents = <<>> THEN <<>>
    ELSE IF Len(contents) = 1 THEN contents[1]
    ELSE contents[1] \o <<"nn">> \o JoinContents(Tail(contents))

\* variant: the list is sent as it is
PreprocessNothing(messages) == messages

\* variant: the system messages stay in the conversation as well, as AI messages
PreprocessKeepingSystem(messages) ==
    LET systemMessages == SelectSeq(messages, LAMBDA m : m.type = "system")
        combinedSystemContent ==
            JoinContents([j \in DOMAIN systemMessages |-> systemMessages[j].content])
        first == IF combinedSystemContent # <<>>
                 THEN <<Tagged("system", combinedSystemContent)>>
                 ELSE <<>>
        Converted(msg) ==
            IF msg.type \in {"ai", "system"} THEN Tagged("ai", msg.content) ELSE msg
    IN first \o [j \in DOMAIN messages |-> Converted(messages[j])]

\* preprocessForGoogle(messages)
PreprocessForGoogle(messages) ==
    LET systemMessages == SelectSeq(messages, LAMBDA m : m.type = "system")
        conversationMessages == SelectSeq(messages, LAMBDA m : m.type # "system")
        combinedSystemContent ==
            JoinContents([j \in DOMAIN systemMessages |-> systemMessages[j].content])
        first == IF combinedSystemContent # <<>>
                 THEN <<Tagged("system", combinedSystemContent)>>
                 ELSE <<>>
        Converted(msg) ==
            IF msg.type = "human" THEN msg
            ELSE IF msg.type \in {"ai", "system"} THEN Tagged("ai", msg.content)
            ELSE msg
    IN first \o [j \in DOMAIN conversationMessages |-> Converted(conversationMessages[j])]

TaggedLists ==
    UNION {[1..n -> {Tagged(type, content) : type \in Tags, content \in Contents}] :
              n \in 0..MaxMsgs}

PreprocessCalls ==
    {[op |-> "preprocessForGoogle", phase |-> "called", messages |-> messages,
      result |-> Undef] : messages \in TaggedLists}

\* this.preprocessForGoogle(messages)
CallPreprocessForGoogle ==
    /\ call.op = "preprocessForGoogle"
    /\ call.phase = "called"
    /\ call' = [call EXCEPT !.phase = "returned",
                            !.result = PreprocessForGoogle(call.messages)]
    /\ UNCHANGED <<engine, backendDown>>

\* this.preprocessForGoogle(this.preprocessForGoogle(messages)): the
\* normalization applied to the list it returned
CallPreprocessAgain ==
    /\ call.op = "preprocessForGoogle"
    /\ call.phase = "returned"
    /\ call' = [op |-> "preprocessForGoogle", phase |-> "reapplied",
                messages |-> call.messages, result |-> call.result,
                again |-> PreprocessForGoogle(call.result)]
    /\ UNCHANGED <<engine, backendDown>>

\* getAvailableModels(provider, apiKey): what the provider's listing endpoint
\* answers to the one request
HostedProviders == {"openai", "anthropic", "google"}
ModelIds == {"gpt-4o", "dall-e-3"}
HasGpt(id) == id \in {"gpt-4o"}
Listing(ids) == [k |-> "listing", ids |-> ids]
NoListing == [k |-> "object"]
NotJson == [k |-> "text"]
Refused == [k |-> "refused"]
Answered(ok, body) == [k |-> "answered", ok |-> ok, body |-> body]
HttpAnswers ==
    {Refused, Answered(FALSE, NotJson)}
        \cup {Answered(TRUE, b) : b \in {Listing(<<"gpt-4o", "dall-e-3">>), Listing(<<>>), NoListing, NotJson}}
ApiKeys == {Undef, JStr(0), JStr(2)}

ModelList(models, sent) == [sent |-> sent, value |-> [k |-> "list", models |-> models]]
ModelsRaise(message, sent) == [sent |-> sent, value |-> Raise(message)]
ModelInfo(id, provider) == [id |-> id, provider |-> provider]
InfoOf(ids, provider) == [j \in DOMAIN ids |-> ModelInfo(ids[j], provider)]

\* the try block of getAvailableModels
FetchModels(provider, apiKey, http) ==
    IF provider \notin Providers THEN ModelList(<<>>, FALSE)
    ELSE IF provider \in HostedProviders /\ ~Truthy(apiKey)
    THEN ModelsRaise("API Key required", FALSE)
    ELSE IF http.k = "refused" THEN ModelsRaise("fetch failed", TRUE)
    ELSE IF ~http.ok THEN ModelsRaise("API Error", TRUE)
    ELSE IF http.body.k = "text" THEN ModelsRaise("SyntaxError", TRUE)
    ELSE IF http.body.k = "object"
    THEN IF provider = "google" THEN ModelList(<<>>, TRUE) ELSE ModelsRaise("TypeError", TRUE)
    ELSE IF provider = "openai"
    THEN ModelList(InfoOf(SelectSeq(http.body.ids, HasGpt), provider), TRUE)
    ELSE ModelList(InfoOf(http.body.ids, provider), TRUE)

\* a catch block that returns the list gathered so far
ModelsOrEmpty(provider, apiKey, http) ==
    LET r == FetchModels(provider, apiKey, http)
    IN  IF Raised(r.value) THEN ModelList(<<>>, r.sent) ELSE r

\* LLMService.getAvailableModels: the catch block rethrows
GetAvailableModels(provider, apiKey, http) == FetchModels(provider, apiKey, http)

ModelCalls ==
    {[op |-> "getAvailableModels", phase |-> "called", provider |-> provider, apiKey |-> apiKey,
      http |-> http, result |-> Undef] :
        provider \in ProviderTags, apiKey \in ApiKeys, http \in HttpAnswers}

CallGetAvailableModels ==
    /\ call.op = "getAvailableModels"
    /\ call.phase = "called"
    /\ call' = [call EXCEPT !.phase = "returned",
                            !.result = GetAvailableModels(call.provider, call.apiKey, call.http)]
    /\ UNCHANGED <<engine, backendDown>>

\* a tree is persisted as generateHighLevelTasks and runDecomposition persist
\* it, and read back as runDecomposition reads it
StoredFiles == {NoFile, WriteSafe(NoFile, <<Prose>>)}

PersistCalls ==
    {[op |-> "persistAndRead", phase |-> "called", node |-> t, fs |-> fs, result |-> Undef] :
        t \in Trees, fs \in StoredFiles}

ReadTasks(fs) ==
    IF ~fs.exists THEN Raise(ReadErrorMessage(fs))
    ELSE IF fs.content = <<>> THEN Raise("No tasks.json found")
    ELSE IF ~ParseOk(fs.content) THEN Raise("SyntaxError")
    ELSE ParseValue(fs.content)

CallPersistAndRead ==
    /\ call.op = "persistAndRead"
    /\ call.phase = "called"
    /\ LET written == WriteSafe(call.fs, Stringify(call.node))
       IN  call' = [call EXCEPT !.phase = "returned",
                                !.result = [fs |-> written, read |-> ReadTasks(written)]]
    /\ UNCHANGED <<engine, backendDown>>

\* a sequence of writeSafe calls to one path, one after the other; each call
\* completes, raises before anything changed, or raises at writeFile
MaxWrites == 3
WriteEnds == {"completes", "raises first", "raises at writeFile"}
WrittenContents == {<<>>, <<Prose>>, Stringify(Project(0))}
WriteRequests == [content : WrittenContents, ends : WriteEnds]

WriteSafeEnds(fs, w) ==
    CASE w.ends = "completes" -> WriteSafe(fs, w.content)
      [] w.ends = "raises first" -> fs
      [] OTHER -> IF fs.exists THEN [fs EXCEPT !.backups = Append(@, fs.content)] ELSE fs

RECURSIVE WriteAll(_, _)
WriteAll(fs, writes) ==
    IF writes = <<>> THEN fs
    ELSE WriteAll(WriteSafeEnds(fs, Head(writes)), Tail(writes))

WriteCalls ==
    {[op |-> "writeSafe", phase |-> "called", writes |-> ws, result |-> Undef] :
        ws \in SeqsUpTo(WriteRequests, MaxWrites)}

CallWriteSafe ==
    /\ call.op = "writeSafe"
    /\ call.phase = "called"
    /\ LET fs == WriteAll(NoFile, call.writes)
       IN  call' = [call EXCEPT !.phase = "returned",
                                !.result = [fs |-> fs,
                                            read |-> IF fs.exists THEN fs.content
                                                     ELSE Raise(ReadErrorMessage(fs))]]
    /\ UNCHANGED <<engine, backendDown>>

InitCall ==
    /\ Constructed
    /\ call \in FindCalls \cup ChatCalls \cup PreprocessCalls \cup ModelCalls \cup PersistCalls
                \cup WriteCalls
    /\ backendDown = FALSE

NextCall ==
    \/ CallFindTasksToDecompose
    \/ CallChat
    \/ CallPreprocessForGoogle
    \/ CallPreprocessAgain
    \/ CallGetAvailableModels
    \/ CallPersistAndRead
    \/ CallWriteSafe

SpecCall == InitCall /\ [][NextCall]_vars

\* ------------------------------------------------- the service on its own
ServiceBackends == {Completes(<<<<Prose>>>>), FailsOnOpen, NeverAnswers}

\* chat(messages) on the service as configure left it
ServiceChat(messages, backend) ==
    /\ call' = [op |-> "chat", phase |-> "returned", service |-> llm, messages |-> messages,
                backend |-> backend, result |-> ChatOf(llm, backend, messages)]
    /\ call' # call
    /\ UNCHANGED <<engine, backendDown>>

NextService ==
    \/ \E provider \in ProviderTags : Configure(provider)
    \/ \E messages \in MessageLists, backend \in ServiceBackends : ServiceChat(messages, backend)

SpecService == Init /\ [][NextService]_vars

\* ------------------------------------------------------- the AgentManager
\* The manager's three fields name the project directory each refers to
\* ("null" before any project was opened); the engine is named by the
\* directory of the storage helper it was constructed with.
ProjectPaths == {"A", "B", "C"}

\* initializeProject completes, or one of its awaited file operations raises:
\* fileSystem.initialize(), or one of those that set up .agent_workspace
InitFailures == {"none", "initialize", "workspace"}

NoManager ==
    [op |-> "manager", projectPath |-> "null", fileSystem |-> "null", workflow |-> "null",
     last |-> [op |-> "none"]]

\* AgentManager.initializeProject(projectPath)
InitializeProject(projectPath, fails) ==
    /\ call.op = "manager"
    /\ call' = [call EXCEPT
           !.projectPath = projectPath,
           !.fileSystem = projectPath,
           !.workflow = IF fails = "initialize" THEN @ ELSE projectPath,
           !.last = [op |-> "initializeProject", path |-> projectPath,
                     success |-> (fails = "none"),
                     before |-> <<call.projectPath, call.fileSystem, call.workflow>>]]
    /\ UNCHANGED <<engine, backendDown>>

\* the 'agent:chat' handler: processMessage on the engine, if there is one
ManagerChat ==
    /\ call.op = "manager"
    /\ call' = [call EXCEPT !.last = [op |-> "chat", dir |-> call.workflow]]
    /\ UNCHANGED <<engine, backendDown>>

\* the 'agent:get-tasks' handler: tasks.json under projectPath, if there is one
GetTasks ==
    /\ call.op = "manager"
    /\ call' = [call EXCEPT !.last = [op |-> "getTasks", dir |-> call.projectPath]]
    /\ UNCHANGED <<engine, backendDown>>

InitManager ==
    /\ Constructed
    /\ call = NoManager
    /\ backendDown = FALSE

NextManager ==
    \/ \E projectPath \in ProjectPaths, fails \in InitFailures :
           InitializeProject(projectPath, fails)
    \/ ManagerChat
    \/ GetTasks

SpecManager == InitManager /\ [][NextManager]_vars

\* ------------------------------------------------------------ properties
Returned(p) == pc[p] = "done" /\ outcome[p].status = "returned"

\* the invocations whose decomposition run went through to its reply
CompletedRuns ==
    {p \in Invocations : Returned(p) /\ outcome[p].response.k = "Decomposition Complete"}

\* the requests an invocation has sent to the model
ChatsOf(loc) == SelectSeq(loc.events, LAMBDA ev : ev.e = "chat")

Decomposed(node) == node.decomposed = JTrue /\ LengthOf(node.children) > 0
ReportedFailed(run, node) ==
    \E l \in DOMAIN run.results :
        run.results[l].mark = "failed" /\ run.results[l].title = node.title

\* C1: processMessage never throws: whatever the step, the text, the model's
\* outcome and the storage outcome, a finished invocation has returned a reply.
C1_NeverThrows ==
    \A p \in Invocations :
        /\ outcome[p].status # "threw"
        /\ pc[p] = "done" => outcome[p].status = "returned"

\* a backend failure reached the user as an interview reply, and a failed
\* read of tasks.json as a decomposition reply
C1_Witness ==
    \E p, q \in Invocations :
        /\ Returned(p) /\ outcome[p].response.k = "llm"
        /\ outcome[p].response.text.k = "error"
        /\ Returned(q) /\ outcome[q].response.k = "Error during decomposition"

\* C2: when task generation fails on an unparseable reply after a confirmation
\* received in step INITIATION, currentStep is still INITIATION when
\* processMessage returns and tasks.json has not been written.
C2_FailedGenerationKeepsInitiation ==
    [][\A p \in Invocations :
          (pc[p] = "gen_chat" /\ pc'[p] = "done")
              => (currentStep' = INITIATION /\ fsys' = fsys)]_vars

\* C3: after a failed generation attempt, a later message holding a
\* confirmation keyword issues a new generation request to the model.
C3_GenerationRetried ==
    [][\A p \in Invocations :
          ( /\ pc[p] = "idle" /\ pc'[p] # "idle"
            /\ IsConfirmation(ToLowerCase(chatHistory'[Len(chatHistory) + 1].content.words))
            /\ \E q \in Invocations : Returned(q) /\ outcome[q].response = GenerationFailed )
              => pc'[p] = "gen_chat"]_vars

\* C4: after a decomposition run every task that was eligible at its start is
\* either decomposed with non-empty children, or reported as a failure and
\* left as it was; none is in neither group and none in both.
C4_DecomposedOrReported ==
    \A p \in CompletedRuns :
        LET run == outcome[p].run
        IN \A j \in DOMAIN run.tasksToDecompose :
               LET node == NodeAt(run.rootTask, run.tasksToDecompose[j])
               IN \/ Decomposed(node) /\ ~ReportedFailed(run, node)
                  \/ ReportedFailed(run, node) /\ Eligible(node)

\* C5: a decomposition run asks the model once for each eligible task, in
\* traversal order, whatever subset of the attempts fails: k requests for k
\* eligible tasks once the loop is over, i + 1 while the answer for task i is
\* awaited and i during the delay before it.
RunRequestsInOrder(loc, n) ==
    /\ Len(ChatsOf(loc)) = n
    /\ \A j \in 1..n :
           ChatsOf(loc)[j].about =
               DecompositionPrompt(NodeAt(loc.rootTask, loc.tasksToDecompose[j])).content

C5_OneRequestPerTask ==
    /\ \A p \in CompletedRuns :
           RunRequestsInOrder(outcome[p].run, Len(outcome[p].run.tasksToDecompose))
    /\ \A p \in Invocations :
           /\ pc[p] = "dec_write" =>
                  RunRequestsInOrder(local[p], Len(local[p].tasksToDecompose))
           /\ pc[p] = "dec_chat" => RunRequestsInOrder(local[p], local[p].i + 1)
           /\ pc[p] = "dec_sleep" => RunRequestsInOrder(local[p], local[p].i)

\* the first of several attempts failed and a later one succeeded
C5_Witness ==
    \E p \in Invocations :
        /\ pc[p] = "dec_write"
        /\ Len(local[p].tasksToDecompose) >= 2
        /\ Len(local[p].results) >= 2
        /\ local[p].results[1].mark = "failed"
        /\ local[p].results[Len(local[p].results)].mark = "ok"

\* C6: the reply of a decomposition run holds one outcome line for each
\* originally eligible task, and the count it reports is the number of
\* success lines and the number of tasks that now hold children.
C6_OneLinePerTask ==
    \A p \in CompletedRuns :
        LET run == outcome[p].run
            reply == outcome[p].response
            okLines == {l \in DOMAIN reply.results : reply.results[l].mark = "ok"}
            holding == {j \in DOMAIN run.tasksToDecompose :
                           Decomposed(NodeAt(run.rootTask, run.tasksToDecompose[j]))}
        IN /\ Len(reply.results) = Len(run.tasksToDecompose)
           /\ reply.count = Cardinality(okLines)
           /\ reply.count = Cardinality(holding)

\* C7: a decomposition run that finds tasks.json absent returns the guidance
\* reply and changes no state: the step stays DECOMPOSITION and the
\* in-progress flag is clear.
C7_AbsentFileGuidance ==
    [][\A p \in Invocations :
          (pc[p] = "dec_read" /\ pc'[p] = "done" /\ ~fsys.exists)
              => /\ outcome'[p].response = NoTasksFound
                 /\ currentStep' = currentStep
                 /\ isDecomposing' = FALSE]_vars

\* C8: every change of currentStep is one of INITIATION to TASK_GENERATION,
\* TASK_GENERATION to DECOMPOSITION, DECOMPOSITION to ANALYSIS, under any
\* interleaving of invocations.
C8_StepOnlyAdvances ==
    [][currentStep' # currentStep =>
          <<currentStep, currentStep'>> \in
              { <<INITIATION, TASK_GENERATION>>, <<TASK_GENERATION, DECOMPOSITION>>,
                <<DECOMPOSITION, ANALYSIS>> }]_vars

\* a skip was processed while a decomposition run was suspended
C8_Witness ==
    /\ currentStep = ANALYSIS
    /\ \E p \in Invocations : pc[p] \in {"dec_chat", "dec_sleep", "dec_write"}

\* C9: a confirmation in step INITIATION whose generation reply is well-formed
\* JSON ends, in the same call, with currentStep = DECOMPOSITION, tasks.json
\* holding the parsed node and the reply stating the number of children
\* (stated here for the calls whose write succeeds).
C9_ConfirmationGenerates ==
    [][\A p \in Invocations :
          ( /\ pc[p] = "gen_write" /\ pc'[p] = "done"
            /\ fsys' = WriteSafe(fsys, Stringify(local[p].projectNode)) )
              => /\ currentStep' = DECOMPOSITION
                 /\ ParseValue(fsys'.content) = local[p].projectNode
                 /\ outcome'[p].response =
                        GenerationComplete(TitleOf(local[p].projectNode),
                                           ChildCount(local[p].projectNode))]_vars

\* C10: an invocation appends the user text tagged human when it starts and
\* its reply tagged ai when it returns, and nothing else ever changes
\* chatHistory; with one invocation at a time the history alternates human,
\* ai and holds two entries for each completed invocation.
Started == {p \in Invocations : pc[p] # "idle"}
Finished == {p \in Invocations : pc[p] = "done"}

HistoryStep ==
    LET n == Len(chatHistory)
        starting == {p \in Invocations : pc[p] = "idle" /\ pc'[p] # "idle"}
        ending == {p \in Invocations : pc[p] # "done" /\ pc'[p] = "done"}
    IN /\ Len(chatHistory') = n + Cardinality(starting) + Cardinality(ending)
       /\ SubSeq(chatHistory', 1, n) = chatHistory
       /\ \A p \in starting :
              /\ chatHistory'[n + 1].type = "human"
              /\ chatHistory'[n + 1].content.words \in UserTexts
       /\ \A p \in ending :
              chatHistory'[Len(chatHistory')] = AIMessage(outcome'[p].response)

HistoryAlternates ==
    /\ Len(chatHistory) = Cardinality(Started) + Cardinality(Finished)
    /\ \A j \in DOMAIN chatHistory :
           chatHistory[j].type = IF j % 2 = 1 THEN "human" ELSE "ai"
    /\ NoneInFlight => Len(chatHistory) = 2 * Cardinality(Finished)

C10_HistoryAppendOnly == [][HistoryStep]_vars /\ []HistoryAlternates

\* three invocations, one after the other, have all returned, a decomposition
\* run among them
C10_Witness ==
    /\ Cardinality(Finished) = MaxInv /\ Len(chatHistory) = 2 * MaxInv
    /\ CompletedRuns # {}

\* C11: on any TaskNode tree findTasksToDecompose returns exactly the nodes
\* of type main-task whose decomposed is not true and whose children are
\* absent or empty, each once, in depth-first pre-order.
ShouldDecompose(node) ==
    /\ node.type = "main-task"
    /\ node.decomposed # JTrue
    /\ node.children \in {Undef, JArr(<<>>)}

RECURSIVE PathsIn(_)
PathsIn(node) ==
    {<<>>} \cup
    (IF node.children.k = "arr"
     THEN UNION {{<<j>> \o q : q \in PathsIn(node.children.items[j])} :
                    j \in DOMAIN node.children.items}
     ELSE {})

\* a comes before b when the tree is walked parent first, children left to right
PreOrderBefore(a, b) ==
    LET common == {n \in 0..Len(a) : n <= Len(b) /\ SubSeq(a, 1, n) = SubSeq(b, 1, n)}
        m == CHOOSE n \in common : \A o \in common : o <= n
    IN /\ a # b
       /\ \/ m = Len(a)
          \/ m < Len(b) /\ a[m + 1] < b[m + 1]

FindReturned == call.op = "findTasksToDecompose" /\ call.phase = "returned"

C11_EligibleInPreOrder ==
    FindReturned =>
        LET paths == call.result.paths
        IN /\ ~call.result.threw
           /\ {paths[j] : j \in DOMAIN paths} =
                  {q \in PathsIn(call.node) : ShouldDecompose(NodeAt(call.node, q))}
           /\ \A i, j \in DOMAIN paths : i < j => PreOrderBefore(paths[i], paths[j])

\* a grandchild of the root was returned before the root's second child
C11_Witness ==
    /\ FindReturned
    /\ \E j \in DOMAIN call.result.paths :
           /\ j + 1 \in DOMAIN call.result.paths
           /\ Len(call.result.paths[j]) = 2
           /\ Len(call.result.paths[j + 1]) = 1

\* C12: a decomposition run with at least one eligible task asks for
\* tasks.json to be written exactly once, after the last task was attempted
\* and never between attempts; when that write completes the file holds the
\* tree, the in-progress flag is clear and currentStep is ANALYSIS.
WritesOf(loc) == SelectSeq(loc.events, LAMBDA ev : ev.e = "write")

PersistedOnce(loc) ==
    /\ Len(loc.tasksToDecompose) >= 1
    /\ Len(WritesOf(loc)) = 1
    /\ loc.events[Len(loc.events)] = WriteEvent
    /\ Len(ChatsOf(loc)) = Len(loc.tasksToDecompose)

RunWritesAtEnd ==
    \A p \in Invocations :
        /\ pc[p] \in {"dec_read", "dec_chat", "dec_sleep"} => WritesOf(local[p]) = <<>>
        /\ pc[p] = "dec_write" => PersistedOnce(local[p])
        /\ p \in CompletedRuns => PersistedOnce(outcome[p].run)

RunWriteStep ==
    \A p \in Invocations :
        /\ ( /\ pc[p] = "dec_write" /\ pc'[p] = "done"
             /\ outcome'[p].response.k = "Decomposition Complete" )
               => /\ fsys'.exists
                  /\ fsys'.content = Stringify(local[p].rootTask)
                  /\ isDecomposing' = FALSE
                  /\ currentStep' = ANALYSIS
        /\ ( /\ pc[p] \in {"dec_read", "dec_chat", "dec_sleep"}
             /\ (pc'[p] # pc[p] \/ local'[p] # local[p]) )
               => fsys' = fsys

Starting(p) == pc[p] = "idle" /\ pc'[p] # "idle"
TextSent == ToLowerCase(chatHistory'[Len(chatHistory) + 1].content.words)
Mentions(text, keywords) == \E kw \in keywords : Includes(text, <<kw>>)

\* C13: while the in-progress flag is set, a message in step DECOMPOSITION
\* that holds a trigger keyword is answered "already in progress" at once:
\* no model call, no run started, currentStep, the flag and tasks.json as
\* they were.
C13_BusyShortCircuits ==
    [][\A p \in Invocations :
          ( /\ Starting(p)
            /\ currentStep = DECOMPOSITION /\ isDecomposing
            /\ Mentions(TextSent, {"decompose", "yes", "proceed", "break"}) )
              => /\ pc'[p] = "done"
                 /\ outcome'[p] = [status |-> "returned", response |-> AlreadyInProgress,
                                   run |-> Fresh]
                 /\ local'[p] = Fresh
                 /\ \A q \in Invocations \ {p} : pc'[q] = pc[q] /\ local'[q] = local[q]
                 /\ currentStep' = currentStep
                 /\ isDecomposing' = isDecomposing
                 /\ fsys' = fsys]_vars

\* a trigger was turned away while a run was waiting for the model
C13_Witness ==
    \E p, q \in Invocations :
        /\ Returned(p) /\ outcome[p].response = AlreadyInProgress
        /\ pc[q] = "dec_chat"
        /\ isDecomposing /\ currentStep = DECOMPOSITION

\* C14: after a decomposition run every task the run marked decomposed holds
\* between 2 and 5 children (the replies that attach children are well-formed
\* JSON).
C14_TwoToFiveSubTasks ==
    \A p \in CompletedRuns :
        LET run == outcome[p].run
        IN \A j \in DOMAIN run.tasksToDecompose :
               LET node == NodeAt(run.rootTask, run.tasksToDecompose[j])
               IN node.decomposed = JTrue =>
                      (LengthOf(node.children) >= 2 /\ LengthOf(node.children) <= 5)

\* C15: in step DECOMPOSITION a message holding "skip" or "next" and no
\* trigger keyword sets currentStep to ANALYSIS in that turn and is answered
\* at once: no model call, tasks.json neither read nor written.
C15_SkipGoesToAnalysis ==
    [][\A p \in Invocations :
          ( /\ Starting(p)
            /\ currentStep = DECOMPOSITION
            /\ Mentions(TextSent, {"skip", "next"})
            /\ ~Mentions(TextSent, {"decompose", "yes", "proceed", "break"}) )
              => /\ currentStep' = ANALYSIS
                 /\ pc'[p] = "done"
                 /\ outcome'[p] = [status |-> "returned", response |-> Skipping, run |-> Fresh]
                 /\ local'[p] = Fresh
                 /\ isDecomposing' = isDecomposing
                 /\ fsys' = fsys]_vars

\* a skip was answered and the step is ANALYSIS
C15_Witness ==
    /\ currentStep = ANALYSIS
    /\ \E p \in Invocations : Returned(p) /\ outcome[p].response = Skipping

\* C16: once currentStep is ANALYSIS or later it never changes again, and a
\* message received then is answered at once with the placeholder naming the
\* step number: no model call, currentStep, the in-progress flag and
\* tasks.json as they were.
C16_AnalysisAbsorbs ==
    [][ /\ currentStep >= ANALYSIS => currentStep' = currentStep
        /\ \A p \in Invocations :
              (Starting(p) /\ currentStep >= ANALYSIS)
                  => /\ pc'[p] = "done"
                     /\ outcome'[p] =
                            [status |-> "returned",
                             response |-> [k |-> "not ready for step", step |-> currentStep],
                             run |-> Fresh]
                     /\ local'[p] = Fresh
                     /\ currentStep' = currentStep
                     /\ isDecomposing' = isDecomposing
                     /\ fsys' = fsys ]_vars

\* a message was answered with the placeholder for step 4 and the step is
\* still 4
C16_Witness ==
    \E p \in Invocations :
        /\ Returned(p)
        /\ outcome[p].response = [k |-> "not ready for step", step |-> ANALYSIS]
        /\ chatHistory[Len(chatHistory)] = AIMessage(outcome[p].response)
        /\ currentStep = ANALYSIS

ChatReturned == call.op = "chat" /\ call.phase = "returned"

\* C17: chat on an unconfigured service never raises and returns the mock
\* reply embedding the content of the last message of its list, for every
\* list, the empty one included.
C17_MockReplyAlways ==
    (ChatReturned /\ call.service.model = "null") =>
        /\ ~Raised(call.result)
        /\ call.result.k = "mock"
        /\ call.messages # <<>> =>
               call.result.heard = call.messages[Len(call.messages)].content

\* C18: chat on a configured service never raises; a backend failure, on
\* opening the stream or on a later chunk, is returned as an error string
\* holding the configured provider's name and the failure's message.
C18_BackendFailureReturned ==
    (ChatReturned /\ call.service.model # "null") =>
        /\ ~Raised(call.result)
        /\ call.backend.kind = "throw" =>
               call.result = [k |-> "error", provider |-> call.service.currentProvider,
                              message |-> BackendMessage]

\* the stream failed after delivering chunks and chat returned the error text
C18_Witness ==
    /\ ChatReturned
    /\ call.service.model # "null"
    /\ call.backend.kind = "throw" /\ call.backend.chunks # <<>>
    /\ call.result.k = "error"

\* C19: on a configured service the first of stream and timeout to settle
\* decides: a stream that completes first yields its chunks joined in arrival
\* order; when the timeout fires first the result is the error string naming
\* the configured provider, whether or not the stream completes afterwards.
C19_FirstToSettleDecides ==
    (ChatReturned /\ call.service.model # "null") =>
        /\ call.backend.kind = "complete" =>
               /\ call.result.k = "text"
               /\ Len(call.result.toks) = Len(call.backend.chunks)
               /\ \A j \in DOMAIN call.backend.chunks :
                      call.result.toks[j] = call.backend.chunks[j][1]
        /\ call.backend.kind \in {"late", "hang"} =>
               call.result = [k |-> "error", provider |-> call.service.currentProvider,
                              message |-> TimeoutMessage]

\* a stream that would have completed after the timeout: chat returned the
\* timeout error
C19_Witness ==
    /\ ChatReturned
    /\ call.service.model # "null"
    /\ call.backend.kind = "late" /\ Len(call.backend.chunks) > 1
    /\ call.result.k = "error" /\ call.result.message = TimeoutMessage

\* C20: every processMessage invocation eventually returns a reply, even
\* when the backend never answers: each chat call settles by its timeout and
\* a decomposition run makes one attempt for each of finitely many tasks
\* (storage operations complete).
\* Whenever invocations are suspended, a state follows in which none is and
\* every invocation that was started has returned.
C20_EveryInvocationReturns ==
    (~NoneInFlight) ~> (NoneInFlight /\ \A p \in Invocations : pc[p] # "idle" => Returned(p))

\* a decomposition run over two tasks got through although the backend was
\* down: both attempts were reported with the timeout error
C20_Witness ==
    \E p \in CompletedRuns :
        /\ backendDown
        /\ Len(outcome[p].run.tasksToDecompose) >= 2
        /\ Len(outcome[p].response.results) >= 2
        /\ \A l \in DOMAIN outcome[p].response.results :
               outcome[p].response.results[l].mark = "failed"

PreprocessReturned == call.op = "preprocessForGoogle" /\ call.phase = "returned"
TaggedAs(messages, type) == SelectSeq(messages, LAMBDA m : m.type = type)
NotTaggedAs(messages, type) == SelectSeq(messages, LAMBDA m : m.type # type)

\* C21: for any message list the Google normalization yields at most one
\* system-tagged message, at position 0 if there is one, and none later.
C21_SystemOnlyFirst ==
    PreprocessReturned =>
        /\ Len(TaggedAs(call.result, "system")) <= 1
        /\ \A j \in DOMAIN call.result : call.result[j].type = "system" => j = 1

\* system messages stood after a human message: the result has one, in front
C21_Witness ==
    /\ PreprocessReturned
    /\ Len(TaggedAs(call.messages, "system")) >= 2
    /\ call.messages[1].type = "human"
    /\ call.result[1].type = "system"
    /\ Len(call.result) = Len(call.messages) - 1

\* C22: the normalization loses and reorders nothing: the leading system
\* message holds the contents of all system-tagged inputs joined in input
\* order, and the rest of the output has the length, contents and order of
\* the non-system inputs, each tagged human if the input was human and ai
\* otherwise.
C22_NothingLostOrReordered ==
    PreprocessReturned =>
        LET systems == TaggedAs(call.messages, "system")
            others == NotTaggedAs(call.messages, "system")
            rest == IF systems = <<>> THEN call.result ELSE Tail(call.result)
        IN /\ systems # <<>> =>
                  /\ call.result # <<>>
                  /\ call.result[1].type = "system"
                  /\ call.result[1].content =
                         JoinContents([j \in DOMAIN systems |-> systems[j].content])
           /\ Len(rest) = Len(others)
           /\ \A j \in DOMAIN others :
                  /\ j \in DOMAIN rest
                  /\ rest[j].content = others[j].content
                  /\ rest[j].type = IF others[j].type = "human" THEN "human" ELSE "ai"

\* C23: configure replaces the active adapter unconditionally: a chat call
\* made after configure(provider, ...) returned is served by the backend
\* built for that provider, never by an earlier adapter or by none.
C23_ConfigureReplacesAdapter ==
    (call.op = "chat" /\ call.phase = "returned" /\ call.service.currentProvider # "null")
        => call.service.model = call.service.currentProvider

ModelsReturned == call.op = "getAvailableModels" /\ call.phase = "returned"
RequestAllowed == call.provider = "ollama" \/ Truthy(call.apiKey)
SuccessResponse == call.http.k = "answered" /\ call.http.ok

\* C24: getAvailableModels signals failure by raising, never by returning a
\* list: a hosted provider without a credential raises before any request is
\* sent, a non-success response raises for every provider, a list is returned
\* only after a success response, and the local provider lists its models
\* without a credential.
C24_FailureRaises ==
    (ModelsReturned /\ call.provider \in Providers) =>
        /\ (call.provider \in HostedProviders /\ ~Truthy(call.apiKey))
              => (Raised(call.result.value) /\ ~call.result.sent)
        /\ (RequestAllowed /\ ~SuccessResponse)
              => (Raised(call.result.value) /\ call.result.sent)
        /\ ~Raised(call.result.value) => (RequestAllowed /\ SuccessResponse)
        /\ (call.provider = "ollama" /\ SuccessResponse /\ call.http.body.k = "listing")
              => call.result.value = [k |-> "list", models |-> InfoOf(call.http.body.ids, "ollama")]

C24_Witness ==
    /\ ModelsReturned
    /\ call.provider \in HostedProviders
    /\ ~Truthy(call.apiKey)
    /\ call.http = Answered(TRUE, Listing(<<"gpt-4o", "dall-e-3">>))
    /\ Raised(call.result.value)
    /\ ~call.result.sent

PersistReturned == call.op = "persistAndRead" /\ call.phase = "returned"

\* C25: persisting a TaskNode tree to tasks.json and reading it back yields a
\* structurally identical tree: id, title, status, type, the order of the
\* children and the decomposed flag of every node are preserved.
C25_RoundTrip ==
    PersistReturned => call.result.read = call.node

C25_Witness ==
    /\ PersistReturned
    /\ call.fs.exists
    /\ call.node.id = "root"
    /\ Len(call.node.children.items) = 2
    /\ call.node.children.items[1].decomposed = JTrue
    /\ call.node.children.items[1].children.items[1].decomposed = Undef
    /\ call.node.children.items[2].children = Undef
    /\ call.result.read = call.node
    /\ call.result.fs.backups = <<call.fs.content>>

\* the invocations whose decomposition run is in flight
RunsInFlight == {p \in Invocations : pc[p] \in {"dec_read", "dec_chat", "dec_sleep", "dec_write"}}

\* the step in which an invocation passes the flag check of handleDecompositionStep
PassesFlagCheck(p) ==
    /\ Starting(p)
    /\ currentStep = DECOMPOSITION /\ ~isDecomposing
    /\ Mentions(TextSent, {"decompose", "yes", "proceed", "break"})

\* C26 as stated: the flag is not an atomic check-and-set, the step in which
\* an invocation passes the flag check leaves the flag unset (it is set in a
\* later step), so that a second trigger can pass the check in between.
C26_CheckThenSetLater ==
    [][\A p \in Invocations : PassesFlagCheck(p) => ~isDecomposing']_vars

\* C26, amended: the flag is checked and set in one uninterrupted step of the
\* handler, so with two trigger messages in progress on one engine in step
\* DECOMPOSITION the second never passes the check while the first run is in
\* flight: a run in flight has the flag set, and at most one run is in flight.
C26_CheckAndSetInOneStep ==
    [][/\ \A p \in Invocations :
             PassesFlagCheck(p) => (isDecomposing' /\ RunsInFlight' = {p})
       /\ RunsInFlight' # {} => isDecomposing'
       /\ Cardinality(RunsInFlight') <= 1]_vars

\* the second trigger arrived right after the first run's first step
C26_Witness ==
    \E p, q \in Invocations :
        /\ p # q
        /\ pc[q] = "dec_read"
        /\ local[q].events = <<ReadEvent>>
        /\ Returned(p) /\ outcome[p].response = AlreadyInProgress

\* the step changed what tasks.json holds
TasksJsonWritten == fsys'.exists /\ (~fsys.exists \/ fsys'.content # fsys.content)

\* the step in which a generation turn ends
GenerationEnds(p) == pc[p] \in {"gen_chat", "gen_write"} /\ Returned(p)'

\* C27: task generation persists if and only if it succeeds: the turn writes
\* tasks.json exactly when it ends with currentStep = DECOMPOSITION and the
\* success summary; a turn that returns the failure reply has written nothing.
C27_PersistsIffSucceeds ==
    [][\A p \in Invocations :
          GenerationEnds(p) =>
              /\ TasksJsonWritten <=>
                     ( /\ currentStep' = DECOMPOSITION
                       /\ outcome'[p].response =
                              GenerationComplete(TitleOf(local[p].projectNode),
                                                 ChildCount(local[p].projectNode)) )
              /\ outcome'[p].response = GenerationFailed => ~TasksJsonWritten]_vars

\* C28: whenever no decomposition run is in flight the in-progress flag is
\* clear (every way a run ends clears it), so a trigger received in step
\* DECOMPOSITION with no run in flight starts a run.
C28_FlagClearWhenIdle ==
    RunsInFlight = {} => ~isDecomposing

\* the step in which a run that attempted at least one task ends
RunOverTasksEnds(p) ==
    /\ p \in RunsInFlight
    /\ Len(local[p].tasksToDecompose) >= 1
    /\ pc'[p] = "done"

CallsAndDelays(loc) == SelectSeq(loc.events, LAMBDA ev : ev.e \in {"chat", "sleep"})
DelaysOf(loc) == SelectSeq(loc.events, LAMBDA ev : ev.e = "sleep")

\* no delay first; every delay lasts 1500 ms and lies between two calls; every
\* call but the first follows a delay
DelaysBetweenCalls(loc) ==
    LET ev == CallsAndDelays(loc)
    IN  /\ ev # <<>> => ev[1].e = "chat"
        /\ \A j \in DOMAIN ev :
              /\ ev[j].e = "sleep" =>
                    /\ ev[j].ms = 1500
                    /\ j > 1 /\ ev[j - 1].e = "chat"
                    /\ j < Len(ev) => ev[j + 1].e = "chat"
              /\ (ev[j].e = "chat" /\ j > 1) => ev[j - 1].e = "sleep"

\* C30: in a decomposition run over k eligible tasks there is no delay before
\* the first model call and exactly one delay of 1.5 s before each later call:
\* k - 1 delays in all, each between two consecutive model calls, also when
\* the attempt before it failed.
C30_DelaysBetweenCalls ==
    \A p \in Invocations :
        /\ p \in RunsInFlight =>
              /\ DelaysBetweenCalls(local[p])
              /\ pc[p] = "dec_read" => CallsAndDelays(local[p]) = <<>>
              /\ pc[p] = "dec_chat" =>
                    /\ Len(ChatsOf(local[p])) = local[p].i + 1
                    /\ Len(DelaysOf(local[p])) = local[p].i
              /\ pc[p] = "dec_sleep" =>
                    /\ Len(ChatsOf(local[p])) = local[p].i
                    /\ Len(DelaysOf(local[p])) = local[p].i
                    /\ local[p].i < Len(local[p].tasksToDecompose)
              /\ pc[p] = "dec_write" =>
                    /\ Len(ChatsOf(local[p])) = Len(local[p].tasksToDecompose)
                    /\ Len(DelaysOf(local[p])) = Len(local[p].tasksToDecompose) - 1
        /\ (p \in CompletedRuns /\ Len(outcome[p].run.tasksToDecompose) >= 1) =>
              /\ DelaysBetweenCalls(outcome[p].run)
              /\ Len(ChatsOf(outcome[p].run)) = Len(outcome[p].run.tasksToDecompose)
              /\ Len(DelaysOf(outcome[p].run)) = Len(outcome[p].run.tasksToDecompose) - 1

\* a run over two tasks completed with one delay, after a first attempt that failed
C30_Witness ==
    \E p \in CompletedRuns :
        /\ Len(outcome[p].run.tasksToDecompose) = 2
        /\ outcome[p].run.results # <<>>
        /\ outcome[p].run.results[1].mark = "failed"
        /\ outcome[p].run.results[1].title = "Task1"
        /\ CallsAndDelays(outcome[p].run)[2] = SleepEvent(SleepMs)
        /\ Len(DelaysOf(outcome[p].run)) = 1

\* the other invocations are where they were
OthersUntouched(p) ==
    \A q \in Invocations \ {p} : pc'[q] = pc[q] /\ local'[q] = local[q] /\ outcome'[q] = outcome[q]

\* C31: in step DECOMPOSITION the trigger keywords take precedence over the
\* skip keywords: a message holding one of each takes the trigger branch (a
\* run starts, or the message is turned away while the flag is set) and the
\* step stays DECOMPOSITION; a message holding neither is answered with the
\* menu, and the step, the flag, tasks.json, the service and the other
\* invocations stay as they were.
C31_TriggerBeforeSkip ==
    [][\A p \in Invocations :
          (Starting(p) /\ currentStep = DECOMPOSITION) =>
              /\ ( /\ Mentions(TextSent, {"decompose", "yes", "proceed", "break"})
                   /\ Mentions(TextSent, {"skip", "next"}) )
                    => /\ currentStep' = DECOMPOSITION
                       /\ fsys' = fsys
                       /\ IF isDecomposing
                          THEN Returned(p)' /\ outcome'[p].response = AlreadyInProgress
                          ELSE pc'[p] = "dec_read" /\ isDecomposing'
              /\ ( /\ ~Mentions(TextSent, {"decompose", "yes", "proceed", "break"})
                   /\ ~Mentions(TextSent, {"skip", "next"}) )
                    => /\ outcome'[p] = [status |-> "returned", response |-> DecompositionMenu,
                                         run |-> Fresh]
                       /\ pc'[p] = "done" /\ local'[p] = Fresh
                       /\ currentStep' = currentStep
                       /\ isDecomposing' = isDecomposing
                       /\ fsys' = fsys /\ llm' = llm
                       /\ OthersUntouched(p)]_vars

\* a message holding "yes" and "skip" started a run, after one holding
\* neither keyword was answered with the menu
C31_Witness ==
    \E p, q \in Invocations :
        /\ pc[p] = "dec_read"
        /\ chatHistory[Len(chatHistory)] = HumanMessage(<<"YES", "skip">>)
        /\ Returned(q) /\ outcome[q].response = DecompositionMenu
        /\ currentStep = DECOMPOSITION

\* two trees that differ at most in the children and the decomposed flag of
\* the node at path
RECURSIVE SameExceptAt(_, _, _)
SameExceptAt(a, b, path) ==
    /\ a.k = "obj" /\ b.k = "obj"
    /\ a.id = b.id /\ a.title = b.title /\ a.type = b.type /\ a.status = b.status
    /\ path # <<>> =>
          /\ a.decomposed = b.decomposed
          /\ a.children.k = "arr" /\ b.children.k = "arr"
          /\ Len(a.children.items) = Len(b.children.items)
          /\ \A j \in DOMAIN a.children.items :
                IF j = Head(path)
                THEN SameExceptAt(a.children.items[j], b.children.items[j], Tail(path))
                ELSE a.children.items[j] = b.children.items[j]

\* the task a run is about to ask the model about
CurrentTask(loc) == NodeAt(loc.rootTask, loc.tasksToDecompose[loc.i + 1])

\* C32: a decomposition run changes only the children and the decomposed flag
\* of tasks that were eligible and succeeded: the tree it works on is the tree
\* it read, each attempt changes at most those two fields of the task it asked
\* about, a task is sent to the model only if it has no children and is not
\* marked decomposed, and the tree persisted is the tree so obtained.
C32_OnlyDecomposedTasksChange ==
    [][\A p \in Invocations :
          /\ (pc[p] = "dec_read" /\ pc'[p] = "dec_chat")
                => local'[p].rootTask = ParseValue(fsys.content)
          /\ (pc[p] # "dec_chat" /\ pc'[p] = "dec_chat")
                => /\ ShouldDecompose(CurrentTask(local'[p]))
                   /\ local'[p].lastMsg = DecompositionPrompt(CurrentTask(local'[p])).content
          /\ (pc[p] = "dec_sleep" /\ pc'[p] = "dec_chat")
                => local'[p].rootTask = local[p].rootTask
          /\ (pc[p] = "dec_chat" /\ pc'[p] # "dec_chat")
                => \/ local'[p].rootTask = local[p].rootTask
                   \/ /\ SameExceptAt(local[p].rootTask, local'[p].rootTask,
                                      local[p].tasksToDecompose[local[p].i + 1])
                      /\ ShouldDecompose(CurrentTask(local[p]))
                      /\ local'[p].results[Len(local'[p].results)].mark = "ok"
                      /\ local'[p].decomposedCount = local[p].decomposedCount + 1
          /\ (pc[p] = pc'[p] /\ p \in RunsInFlight)
                => local'[p].rootTask = local[p].rootTask
          /\ (pc[p] = "dec_write" /\ Returned(p)'
                /\ outcome'[p].response.k = "Decomposition Complete")
                => /\ fsys'.content = Stringify(local[p].rootTask)
                   /\ outcome'[p].run.rootTask = local[p].rootTask]_vars

\* a run over two tasks persisted a tree in which the first task is as it was
\* read and the second holds its sub-tasks
C32_Witness ==
    \E p \in CompletedRuns :
        LET run == outcome[p].run
        IN  /\ Len(run.tasksToDecompose) = 2
            /\ fsys.exists /\ fsys.content = Stringify(run.rootTask)
            /\ NodeAt(run.rootTask, run.tasksToDecompose[1]) = MainTask(1)
            /\ NodeAt(run.rootTask, run.tasksToDecompose[2]).decomposed = JTrue
            /\ Len(fsys.backups) = 1
            /\ SameExceptAt(ParseValue(fsys.backups[1]), run.rootTask, run.tasksToDecompose[2])

\* a root TaskNode as the generation prompt asks for it
ProjectOfMainTasks(v) ==
    /\ v.k = "obj"
    /\ v.type = "project"
    /\ v.children.k = "arr"
    /\ \A j \in DOMAIN v.children.items :
          v.children.items[j].k = "obj" /\ v.children.items[j].type = "main-task"

\* C33: whenever a generation the engine reports as successful has written
\* tasks.json, the root node written has type project and only main-task
\* children, whatever the model replied.
C33_RootIsProject ==
    [][\A p \in Invocations :
          ( /\ pc[p] = "gen_write" /\ Returned(p)'
            /\ outcome'[p].response.k = "Step 2 Complete" )
              => ( /\ fsys'.exists
                   /\ ParseOk(fsys'.content)
                   /\ ProjectOfMainTasks(ParseValue(fsys'.content)) )]_vars

WritesReturned == call.op = "writeSafe" /\ call.phase = "returned"

\* the calls of the sequence that completed, and those that raised at
\* writeFile when the file was there
CompletedWrites == SelectSeq(call.writes, LAMBDA w : w.ends = "completes")
Overwrites == IF CompletedWrites = <<>> THEN 0 ELSE Len(CompletedWrites) - 1
CopiedThenRaised ==
    Cardinality({j \in DOMAIN call.writes :
        /\ call.writes[j].ends = "raises at writeFile"
        /\ \E l \in 1..(j - 1) : call.writes[l].ends = "completes"})

\* C34 as stated: after any sequence of writeSafe calls to one path the number
\* of backups equals the number of overwrites, and reading the path returns
\* the content of the last write.
C34_BackupPerOverwrite ==
    WritesReturned =>
        /\ Len(call.result.fs.backups) = Overwrites
        /\ CompletedWrites # <<>> =>
              call.result.read = CompletedWrites[Len(CompletedWrites)].content

\* C34, amended: writeSafe copies the previous content before it overwrites an
\* existing file and makes no copy on the first write: after a sequence of
\* calls that all complete the backups are the earlier contents in order, one
\* per overwrite; a call that raises at writeFile leaves its copy behind, so in
\* general the backups are the overwrites plus those calls; reading the path
\* returns the content of the last call that completed.
C34_BackupBeforeOverwrite ==
    WritesReturned =>
        /\ Len(call.result.fs.backups) = Overwrites + CopiedThenRaised
        /\ IF CompletedWrites = <<>>
           THEN Raised(call.result.read) /\ call.result.fs.backups = <<>>
           ELSE call.result.read = CompletedWrites[Len(CompletedWrites)].content
        /\ CompletedWrites = call.writes =>
              call.result.fs.backups =
                  [j \in 1..(Len(call.writes) - 1) |-> call.writes[j].content]

\* three writes completed: two backups, the first and the second content
C34_Witness ==
    /\ WritesReturned
    /\ Len(call.writes) = 3 /\ CompletedWrites = call.writes
    /\ call.writes[1].content # call.writes[2].content
    /\ call.result.fs.backups = <<call.writes[1].content, call.writes[2].content>>
    /\ call.result.read = call.writes[3].content

\* C35: the provider tag and the adapter held by the service always agree:
\* both are unset, or the adapter is the one built for the recorded provider,
\* after every configure call.
C35_TagAndAdapterAgree ==
    llm.model = llm.currentProvider

\* C36: a configure call made while a chat call is in flight affects later
\* calls only: when the call in flight fails or times out, the error string it
\* returns names the provider whose adapter it was issued to.
C36_ErrorNamesIssuingProvider ==
    [][\A p \in Invocations :
          ( /\ pc[p] = "init_chat" /\ Returned(p)'
            /\ local[p].chatModel # "null"
            /\ outcome'[p].response.text.k = "error" )
              => outcome'[p].response.text.provider = local[p].chatModel]_vars

\* the step in which a write of tasks.json by invocation p ends
EngineWriteEnds(p) == pc[p] \in {"gen_write", "dec_write"} /\ pc'[p] = "done"

\* C37: once currentStep has reached ANALYSIS the engine never writes
\* tasks.json again, under any interleaving of processMessage invocations.
C37_NoWriteAfterAnalysis ==
    [][\A p \in Invocations :
          (currentStep >= ANALYSIS /\ EngineWriteEnds(p))
              => (fsys'.exists = fsys.exists /\ fsys'.content = fsys.content)]_vars

\* C38: the step is never advanced past TASK_GENERATION unless the write of
\* tasks.json by the generation completed first: the step in which currentStep
\* becomes DECOMPOSITION or later is the step in which the generation's
\* writeSafe returns, with tasks.json holding the parsed root node.
C38_WrittenBeforeAdvance ==
    [][(currentStep < DECOMPOSITION /\ currentStep' >= DECOMPOSITION)
          => \E p \in Invocations :
                /\ pc[p] = "gen_write" /\ pc'[p] = "done"
                /\ fsys' = WriteSafe(fsys, Stringify(local[p].projectNode))
                /\ ParseValue(fsys'.content) = local[p].projectNode
                /\ currentStep' = DECOMPOSITION]_vars

\* the generated project was written and the step is DECOMPOSITION
C38_Witness ==
    /\ currentStep = DECOMPOSITION
    /\ fsys.exists /\ fsys.content = Stringify(Project(MaxTasks))
    /\ fsys.backups = <<>>
    /\ \E p \in Invocations :
          Returned(p) /\ outcome[p].response = GenerationComplete("Project2", MaxTasks)

\* C39: initializeProject is all-or-nothing on the manager's state: after it
\* returns, projectPath, the storage helper and the engine refer to the same
\* project, and when it returned success = false none of the three changed;
\* so chat and getTasks never work on different project directories.
C39_InitAllOrNothing ==
    call.op = "manager" =>
        /\ call.projectPath = call.fileSystem /\ call.fileSystem = call.workflow
        /\ (call.last.op = "initializeProject" /\ ~call.last.success)
              => <<call.projectPath, call.fileSystem, call.workflow>> = call.last.before

\* C40: the Google-style normalization is idempotent: applied to its own
\* output it returns a list with the same tags and the same contents, for
\* every input list.
C40_NormalizationIdempotent ==
    (call.op = "preprocessForGoogle" /\ call.phase = "reapplied") =>
        /\ Len(call.again) = Len(call.result)
        /\ \A j \in DOMAIN call.result :
               /\ call.again[j].type = call.result[j].type
               /\ call.again[j].content = call.result[j].content

\* several system messages were combined and a human, an AI or a tool message
\* went through, and the result was normalized once more
C40_Witness ==
    /\ call.op = "preprocessForGoogle"
    /\ call.phase = "reapplied"
    /\ Len(SelectSeq(call.messages, LAMBDA m : m.type = "system" /\ m.content # <<>>)) >= 2
    /\ \E j \in DOMAIN call.messages : call.messages[j].type # "system"
    /\ call.messages[1].type # "system"
    /\ Len(call.result) >= 2
    /\ call.again = call.result

====
